---- MODULE Spec2Model ----
(***************************************************************************)
(* Model of endgame_simulations: GenericSimulation (the "Stepper",         *)
(* simulations.py) and GenericEndgame (the "Regime Scheduler",             *)
(* endgame_simulation.py).                                                 *)
(*                                                                         *)
(* Times are integers: one unit is the resolution of the time grid, and    *)
(* delta_time, start times, activation times and end times are whole       *)
(* numbers of units.  Parameter sets are opaque and are represented by     *)
(* small integers.  The externally supplied advance operation is opaque;   *)
(* its effect on the State is represented by the counter `advances`.       *)
(* Python's 0-based list positions are kept: position i of a Python list   *)
(* is element i+1 of the TLA+ sequence.                                    *)
(***************************************************************************)
EXTENDS Integers, Sequences, FiniteSets, TLC

VARIABLES
    delta_time,         \* GenericSimulation._delta_time of the subclass
    start_time,         \* constructor argument start_time
    endgame,            \* constructor argument: the converted list of (time, params)
    phase,              \* "new" before __init__, "ready" after it, else the exception it raised
    simulation,         \* GenericEndgame.simulation.state / GenericSimulation.state
    param_set,          \* GenericEndgame._param_set
    next_params_index,  \* GenericEndgame.next_params_index
    hist,               \* the calls made on the object so far, oldest first
    h5,                 \* the checkpoint container written by save
    twin,               \* the object restored from h5, and the calls made on it
    gen                 \* the generator returned by the last iter_run call

vars == <<delta_time, start_time, endgame, phase, simulation, param_set,
          next_params_index, hist, h5, twin, gen>>

----------------------------------------------------------------------------
(* Bounds of the model *)

MaxDelta == 2
MaxStart == 2
MaxRegimeTime == 3
MaxRegimes == 3
MaxEnd == 5
MaxCalls == 2
MaxSimCalls == 3

DeltaTimes == 1..MaxDelta
StartTimes == 0..MaxStart
EndTimes == 0..MaxEnd

\* Regime timelines as convert_endgame returns them: at least one element,
\* strictly increasing by time; the params of list position i are the integer i+1.
TimeLists ==
    UNION { { f \in [1..n -> 0..MaxRegimeTime] :
                \A i \in 1..(n - 1) : f[i] < f[i + 1] } : n \in 1..MaxRegimes }

Timelines ==
    { [i \in 1..Len(ts) |-> <<ts[i], i>>] : ts \in TimeLists }

----------------------------------------------------------------------------
(* The State contract and the Stepper (simulations.py) *)

NoState == [current_time |-> 0, params |-> 0, advances |-> 0]

\* GenericSimulation.__init__, fresh branch: state_class.from_params(params, start_time or 0.0)
SimNew(params, start) ==
    [current_time |-> start, params |-> params, advances |-> 0]

\* GenericSimulation.reset_current_params
reset_current_params(state, params) ==
    [state EXCEPT !.params = params]

\* One pass of the loop body of run: current_time += delta_time, then advance_state
SimStep(state, d) ==
    [state EXCEPT !.current_time = @ + d, !.advances = @ + 1]

\* The record of one executed step: the time the step started from and the
\* parameter set in force
StepEvent(state) ==
    [ev |-> "step", t |-> state.current_time, p |-> state.params, k |-> -1]

\* A run loop that stops as soon as current_time reaches end_time
RECURSIVE SimRunLoopUpTo(_, _, _)
SimRunLoopUpTo(r, end_time, d) ==
    IF r.state.current_time < end_time
    THEN SimRunLoopUpTo([state |-> SimStep(r.state, d),
                         trace |-> Append(r.trace, StepEvent(r.state))],
                        end_time, d)
    ELSE r

SimRunUpTo(state, end_time, d) ==
    IF end_time < state.current_time
    THEN [state |-> state, trace |-> <<>>, error |-> "ValueError"]
    ELSE LET r == SimRunLoopUpTo([state |-> state, trace |-> <<>>], end_time, d)
         IN  [state |-> r.state, trace |-> r.trace, error |-> "none"]

\* A run loop that keeps stepping until current_time is a whole delta_time
\* past end_time
RECURSIVE SimRunLoopPast(_, _, _)
SimRunLoopPast(r, end_time, d) ==
    IF r.state.current_time < end_time + d
    THEN SimRunLoopPast([state |-> SimStep(r.state, d),
                         trace |-> Append(r.trace, StepEvent(r.state))],
                        end_time, d)
    ELSE r

SimRunPast(state, end_time, d) ==
    IF end_time < state.current_time
    THEN [state |-> state, trace |-> <<>>, error |-> "ValueError"]
    ELSE LET r == SimRunLoopPast([state |-> state, trace |-> <<>>], end_time, d)
         IN  [state |-> r.state, trace |-> r.trace, error |-> "none"]

\* The while loop of GenericSimulation.run
RECURSIVE SimRunLoop(_, _, _)
SimRunLoop(r, end_time, d) ==
    IF r.state.current_time <= end_time
    THEN SimRunLoop([state |-> SimStep(r.state, d),
                     trace |-> Append(r.trace, StepEvent(r.state))],
                    end_time, d)
    ELSE r

\* GenericSimulation.run
SimRun(state, end_time, d) ==
    IF end_time < state.current_time
    THEN [state |-> state, trace |-> <<>>, error |-> "ValueError"]
    ELSE LET r == SimRunLoop([state |-> state, trace |-> <<>>], end_time, d)
         IN  [state |-> r.state, trace |-> r.trace, error |-> "none"]

----------------------------------------------------------------------------
(* The Regime Scheduler (endgame_simulation.py) *)

\* A search that takes the first position whose time is at or after t
FirstAtOrAfter(ps, t) ==
    LET later == { i \in 0..(Len(ps) - 1) : ps[i + 1][1] >= t }
    IN  IF later = {}
        THEN [error |-> "StopIteration", index |-> 0]
        ELSE [error |-> "none",
              index |-> CHOOSE i \in later : \A j \in later : i <= j]

\* next(i for i, value in enumerate(time_params) if value > t): the first
\* list position whose time is greater than t; StopIteration when there is none
FirstAfter(ps, t) ==
    LET later == { i \in 0..(Len(ps) - 1) : ps[i + 1][1] > t }
    IN  IF later = {}
        THEN [error |-> "StopIteration", index |-> 0]
        ELSE [error |-> "none",
              index |-> CHOOSE i \in later : \A j \in later : i <= j]

\* GenericEndgame.__init__, branch `if endgame:`
EndgameNew(eg, start) ==
    LET first == FirstAfter(eg, start)
    IN  IF first.error # "none"
        THEN [error |-> first.error, simulation |-> NoState,
              param_set |-> <<>>, next_params_index |-> 0]
        ELSE IF first.index < 1
        THEN [error |-> "ValueError", simulation |-> NoState,
              param_set |-> <<>>, next_params_index |-> 0]
        ELSE [error |-> "none",
              simulation |-> SimNew(eg[first.index][2], start),
              param_set |-> eg,
              next_params_index |-> first.index]

\* The object as one value
Self ==
    [simulation |-> simulation, param_set |-> param_set,
     next_params_index |-> next_params_index]

InstallEvent(state, k, params) ==
    [ev |-> "install", t |-> state.current_time, p |-> params, k |-> k]

\* The while loop of GenericEndgame.run.  r carries the object, the events
\* of the call so far, the number of loop passes and the error raised.
RECURSIVE EndgameRunLoop(_, _, _)
EndgameRunLoop(r, end_time, d) ==
    IF r.self.simulation.current_time < end_time
    THEN LET s == r.self
             has == s.next_params_index < Len(s.param_set)
             time == s.param_set[s.next_params_index + 1][1]
             params == s.param_set[s.next_params_index + 1][2]
             switch == has /\ time < end_time
             index1 == IF has THEN s.next_params_index + 1
                       ELSE s.next_params_index
             checkpoint_time == IF switch THEN time ELSE end_time
             state1 == IF switch THEN reset_current_params(s.simulation, params)
                       ELSE s.simulation
             log1 == IF switch
                     THEN Append(r.log, InstallEvent(s.simulation,
                                                     s.next_params_index, params))
                     ELSE r.log
             seg == SimRun(state1, checkpoint_time, d)
             r1 == [self |-> [simulation |-> seg.state,
                              param_set |-> s.param_set,
                              next_params_index |-> index1],
                    log |-> log1 \o seg.trace,
                    iters |-> r.iters + 1,
                    error |-> seg.error]
         IN  IF seg.error # "none" THEN r1
             ELSE EndgameRunLoop(r1, end_time, d)
    ELSE r

\* GenericEndgame.run
EndgameRun(s, end_time, d) ==
    EndgameRunLoop([self |-> s, log |-> <<>>, iters |-> 0, error |-> "none"],
                   end_time, d)

----------------------------------------------------------------------------
(* Checkpoints *)

\* State.to_hdf5: the snapshot of a State, written into the group "simulation"
ToHdf5(state) ==
    [group |-> "simulation", current_time |-> state.current_time,
     params |-> state.params, fields |-> state.advances]

\* State.from_hdf5
FromHdf5(g) ==
    [current_time |-> g.current_time, params |-> g.params, advances |-> g.fields]

\* params.dict() and combined_params_model.parse_obj
Dict(params) == <<"dict", params>>
ParseObj(d) == d[2]

\* json.dumps([(i[0], i[1].dict()) for i in self._param_set]) and json.loads:
\* the tuples come back as two-element lists
JsonDumps(ps) == [i \in 1..Len(ps) |-> <<"json", ps[i][1], ps[i][2]>>]
JsonLoads(str) == [i \in 1..Len(str) |-> <<str[i][2], str[i][3]>>]

NoFile ==
    [present |-> FALSE, simulation |-> ToHdf5(NoState), param_set |-> <<>>,
     next_params_index |-> 0]

\* A save that writes the position of the active regime instead of the next one
EndgameSaveActiveIndex(s) ==
    [self |-> s,
     file |-> [present |-> TRUE,
               simulation |-> ToHdf5(s.simulation),
               param_set |-> JsonDumps([i \in 1..Len(s.param_set) |->
                                <<s.param_set[i][1], Dict(s.param_set[i][2])>>]),
               next_params_index |-> s.next_params_index - 1]]

\* GenericEndgame.save: the container written, and the object after the call
EndgameSave(s) ==
    [self |-> s,
     file |-> [present |-> TRUE,
               simulation |-> ToHdf5(s.simulation),
               param_set |-> JsonDumps([i \in 1..Len(s.param_set) |->
                                <<s.param_set[i][1], Dict(s.param_set[i][2])>>]),
               next_params_index |-> s.next_params_index]]

\* GenericEndgame.__init__, branch `else` (input): GenericEndgame.restore
EndgameRestore(file) ==
    LET loaded == JsonLoads(file.param_set)
    IN  [simulation |-> FromHdf5(file.simulation),
         param_set |-> [i \in 1..Len(loaded) |->
                          <<loaded[i][1], ParseObj(loaded[i][2])>>],
         next_params_index |-> file.next_params_index]

NoSelf == [simulation |-> NoState, param_set |-> <<>>, next_params_index |-> 0]
NoTwin == [present |-> FALSE, self |-> NoSelf, calls |-> <<>>]

\* The local variables of a suspended GenericSimulation.iter_run
NoFrame ==
    [end_time |-> 0, sampling_interval |-> 0, sampling_years |-> <<>>,
     sampling_years_idx |-> 0, is_on_sampling_year |-> FALSE]

\* No generator: none was created, or the last one was dropped
NoGen ==
    [pc |-> "none", end_time |-> 0, sampling_interval |-> 0,
     sampling_years |-> <<>>, frame |-> NoFrame]

----------------------------------------------------------------------------
(* Actions *)

Call(op, end_time, pre, r) ==
    [op |-> op, end_time |-> end_time, pre |-> pre, post |-> r.self,
     log |-> r.log, iters |-> r.iters, error |-> r.error]

Init ==
    /\ delta_time \in DeltaTimes
    /\ start_time \in StartTimes
    /\ endgame \in Timelines
    /\ phase = "new"
    /\ simulation = NoState
    /\ param_set = <<>>
    /\ next_params_index = 0
    /\ hist = <<>>
    /\ h5 = NoFile
    /\ twin = NoTwin
    /\ gen = NoGen

\* GenericEndgame(start_time=..., endgame=...)
Construct ==
    /\ phase = "new"
    /\ LET r == EndgameNew(endgame, start_time)
       IN  /\ phase' = IF r.error = "none" THEN "ready" ELSE r.error
           /\ simulation' = r.simulation
           /\ param_set' = r.param_set
           /\ next_params_index' = r.next_params_index
    /\ UNCHANGED <<delta_time, start_time, endgame, hist, h5, twin>>
    /\ UNCHANGED gen

\* The calls made so far, save apart
NumRuns == Cardinality({ i \in 1..Len(hist) : hist[i].op # "save" })

\* endgame.run(end_time=e), before any checkpoint is taken
Run(e) ==
    /\ phase = "ready"
    /\ ~h5.present
    /\ gen.pc \in {"none", "done"}
    /\ NumRuns < MaxCalls
    /\ LET r == EndgameRun(Self, e, delta_time)
       IN  /\ simulation' = r.self.simulation
           /\ param_set' = r.self.param_set
           /\ next_params_index' = r.self.next_params_index
           /\ hist' = Append(hist, Call("run", e, Self, r))
    /\ UNCHANGED <<delta_time, start_time, endgame, phase, h5, twin>>
    /\ UNCHANGED gen

\* endgame.save(output)
Save ==
    /\ phase = "ready"
    /\ ~h5.present
    /\ LET r == EndgameSave(Self)
       IN  /\ h5' = r.file
           /\ simulation' = r.self.simulation
           /\ param_set' = r.self.param_set
           /\ next_params_index' = r.self.next_params_index
           /\ hist' = Append(hist, Call("save", 0, Self,
                          [self |-> r.self, log |-> <<>>, iters |-> 0,
                           error |-> "none"]))
    /\ UNCHANGED <<delta_time, start_time, endgame, phase, twin>>
    /\ UNCHANGED gen

\* GenericEndgame.restore(input)
Restore ==
    /\ h5.present
    /\ ~twin.present
    /\ twin' = [present |-> TRUE, self |-> EndgameRestore(h5), calls |-> <<>>]
    /\ UNCHANGED <<delta_time, start_time, endgame, phase, simulation,
                   param_set, next_params_index, hist, h5>>
    /\ UNCHANGED gen

\* The same call run(end_time=e) made on the restored object and on the
\* object that was saved and kept running
RunBoth(e) ==
    /\ twin.present
    /\ NumRuns < MaxCalls
    /\ LET r == EndgameRun(Self, e, delta_time)
           t == EndgameRun(twin.self, e, delta_time)
       IN  /\ simulation' = r.self.simulation
           /\ param_set' = r.self.param_set
           /\ next_params_index' = r.self.next_params_index
           /\ hist' = Append(hist, Call("run", e, Self, r))
           /\ twin' = [twin EXCEPT !.self = t.self,
                          !.calls = Append(@, Call("run", e, twin.self, t))]
    /\ UNCHANGED <<delta_time, start_time, endgame, phase, h5>>
    /\ UNCHANGED gen

Next ==
    \/ Construct
    \/ \E e \in EndTimes : Run(e)
    \/ Save
    \/ Restore
    \/ \E e \in EndTimes : RunBoth(e)

Spec == Init /\ [][Next]_vars

----------------------------------------------------------------------------
(* A Stepper used on its own *)

InitStepper ==
    /\ delta_time \in DeltaTimes
    /\ start_time \in StartTimes
    /\ endgame = <<>>
    /\ phase = "new"
    /\ simulation = NoState
    /\ param_set = <<>>
    /\ next_params_index = 0
    /\ hist = <<>>
    /\ h5 = NoFile
    /\ twin = NoTwin
    /\ gen = NoGen

\* GenericSimulation(start_time=..., params=...)
SimConstruct ==
    /\ phase = "new"
    /\ phase' = "stepper"
    /\ simulation' = SimNew(1, start_time)
    /\ UNCHANGED <<delta_time, start_time, endgame, param_set,
                   next_params_index, hist, h5, twin>>
    /\ UNCHANGED gen

\* simulation.run(end_time=e)
SimRunCall(e) ==
    /\ phase = "stepper"
    /\ Len(hist) < MaxSimCalls
    /\ LET r == SimRun(simulation, e, delta_time)
       IN  /\ simulation' = r.state
           /\ hist' = Append(hist, Call("run", e, Self,
                          [self |-> [Self EXCEPT !.simulation = r.state],
                           log |-> r.trace, iters |-> 0, error |-> r.error]))
    /\ UNCHANGED <<delta_time, start_time, endgame, phase, param_set,
                   next_params_index, h5, twin>>
    /\ UNCHANGED gen

NextStepper ==
    \/ SimConstruct
    \/ \E e \in EndTimes : SimRunCall(e)

SpecStepper == InitStepper /\ [][NextStepper]_vars

----------------------------------------------------------------------------
(* Replacing the timeline of a running scheduler *)

MaxResets == 1
MaxResetRegimes == 2

\* The timelines handed to reset_endgame: MaxResetRegimes regimes, whose
\* parameter sets differ from those of the constructor's timelines
ResetTimelines ==
    { [i \in 1..MaxResetRegimes |-> <<ts[i], i + MaxRegimes>>] :
        ts \in { f \in [1..MaxResetRegimes -> 0..MaxRegimeTime] :
                   \A i \in 1..(MaxResetRegimes - 1) : f[i] < f[i + 1] } }

\* A reset that searches from the constructor's start_time instead of the
\* current time
EndgameResetFromStart(s, eg) ==
    LET first == FirstAfter(eg, start_time)
        replaced == [s EXCEPT !.param_set = eg]
    IN  IF first.error # "none"
        THEN [self |-> replaced, log |-> <<>>, iters |-> 0, error |-> first.error]
        ELSE IF first.index < 1
        THEN [self |-> [replaced EXCEPT !.next_params_index = first.index],
              log |-> <<>>, iters |-> 0, error |-> "ValueError"]
        ELSE [self |-> [simulation |->
                            reset_current_params(s.simulation, eg[first.index][2]),
                        param_set |-> eg,
                        next_params_index |-> first.index],
              log |-> <<InstallEvent(s.simulation, first.index - 1,
                                     eg[first.index][2])>>,
              iters |-> 0, error |-> "none"]

\* GenericEndgame.reset_endgame: _param_set is assigned first, then the
\* search (which may raise StopIteration), then next_params_index, then the
\* check (which may raise ValueError), then reset_current_params
EndgameReset(s, eg) ==
    LET first == FirstAfter(eg, s.simulation.current_time)
        replaced == [s EXCEPT !.param_set = eg]
    IN  IF first.error # "none"
        THEN [self |-> replaced, log |-> <<>>, iters |-> 0, error |-> first.error]
        ELSE IF first.index < 1
        THEN [self |-> [replaced EXCEPT !.next_params_index = first.index],
              log |-> <<>>, iters |-> 0, error |-> "ValueError"]
        ELSE [self |-> [simulation |->
                            reset_current_params(s.simulation, eg[first.index][2]),
                        param_set |-> eg,
                        next_params_index |-> first.index],
              log |-> <<InstallEvent(s.simulation, first.index - 1,
                                     eg[first.index][2])>>,
              iters |-> 0, error |-> "none"]

\* The record of one reset_endgame call, with its argument
ResetCall(eg, pre, r) ==
    [op |-> "reset", end_time |-> 0, pre |-> pre, post |-> r.self,
     log |-> r.log, iters |-> r.iters, error |-> r.error, arg |-> eg]

NumResets == Cardinality({ i \in 1..Len(hist) : hist[i].op = "reset" })

\* endgame.reset_endgame(eg)
Reset(eg) ==
    /\ phase = "ready"
    /\ ~h5.present
    /\ NumResets < MaxResets
    /\ NumRuns < MaxCalls
    /\ LET r == EndgameReset(Self, eg)
       IN  /\ simulation' = r.self.simulation
           /\ param_set' = r.self.param_set
           /\ next_params_index' = r.self.next_params_index
           /\ hist' = Append(hist, ResetCall(eg, Self, r))
    /\ UNCHANGED <<delta_time, start_time, endgame, phase, h5, twin>>
    /\ UNCHANGED gen

NextReset ==
    \/ Construct
    \/ \E e \in EndTimes : Run(e)
    \/ \E eg \in ResetTimelines : Reset(eg)

SpecReset == Init /\ [][NextReset]_vars

----------------------------------------------------------------------------
(* iter_run of the Stepper (simulations.py) *)

MaxInterval == 2
MaxYear == 3
MaxYears == 2
MaxStepperYears == 3

\* sampling_years as the caller passes it: any order, repetitions allowed;
\* <<>> stands for both None and the empty list, which iter_run does not
\* tell apart
YearLists(n) == UNION { [1..m -> 0..MaxYear] : m \in 0..n }

\* The keyword arguments sampling_interval (0 stands for None) and
\* sampling_years of one iter_run call.  When both are given iter_run reads
\* of sampling_years only whether it is empty, so lists of one year stand
\* for all of them.
SamplingArgs(lists) ==
    [sampling_interval : {0}, sampling_years : lists]
        \cup [sampling_interval : 1..MaxInterval, sampling_years : YearLists(1)]

\* Lists of distinct years in ascending order.  The scheduler hands
\* sampling_years on to the Stepper as it gets it; it is given these lists,
\* and the Stepper on its own the lists in any order.
AscendingYearLists(n) ==
    { l \in YearLists(n) : \A i \in 1..(Len(l) - 1) : l[i] < l[i + 1] }

Abs(x) == IF x < 0 THEN -x ELSE x

\* The list in the order the caller gave it
AsGiven(l) == l

\* sorted(sampling_years)
RECURSIVE sorted(_)
sorted(l) ==
    IF l = <<>> THEN <<>>
    ELSE LET least == CHOOSE x \in { l[i] : i \in 1..Len(l) } :
                          \A i \in 1..Len(l) : x <= l[i]
             at == CHOOSE i \in 1..Len(l) :
                       l[i] = least /\ \A j \in 1..(i - 1) : l[j] # least
         IN  <<least>> \o sorted(SubSeq(l, 1, at - 1) \o SubSeq(l, at + 1, Len(l)))

\* The record of one yield: the time of the yielded State, its parameter
\* set and, when the yield is for a sampling year, that year (else -1)
YieldEvent(state, f, on_year) ==
    [ev |-> "yield", t |-> state.current_time, p |-> state.params,
     k |-> IF on_year THEN f.sampling_years[f.sampling_years_idx + 1] ELSE -1]

\* The while loop of GenericSimulation.iter_run, from the top of a pass to
\* the next yield, or to the end of the loop.  r carries the State and the
\* events so far, f the generator's local variables.
RECURSIVE SimIterLoop(_, _, _)
SimIterLoop(r, f, d) ==
    IF r.state.current_time <= f.end_time
    THEN LET is_on_sampling_interval ==
                 /\ f.sampling_interval # 0
                 /\ r.state.current_time % f.sampling_interval < d
             is_on_sampling_year ==
                 /\ f.sampling_years # <<>>
                 /\ f.sampling_years_idx < Len(f.sampling_years)
                 /\ Abs(r.state.current_time
                          - f.sampling_years[f.sampling_years_idx + 1]) < d
         IN  IF is_on_sampling_interval \/ is_on_sampling_year
             THEN [state |-> r.state,
                   trace |-> Append(r.trace,
                                    YieldEvent(r.state, f, is_on_sampling_year)),
                   out |-> "yield", error |-> "none",
                   frame |-> [f EXCEPT !.is_on_sampling_year = is_on_sampling_year]]
             ELSE SimIterLoop([state |-> SimStep(r.state, d),
                               trace |-> Append(r.trace, StepEvent(r.state))],
                              f, d)
    ELSE [state |-> r.state, trace |-> r.trace, out |-> "return",
          error |-> "none", frame |-> f]

\* GenericSimulation.iter_run from its first line to its first yield
SimIterStart(state, end_time, sampling_interval, sampling_years, d) ==
    IF end_time < state.current_time
    THEN [state |-> state, trace |-> <<>>, out |-> "raise",
          error |-> "ValueError", frame |-> NoFrame]
    ELSE IF sampling_interval # 0 /\ sampling_years # <<>>
    THEN [state |-> state, trace |-> <<>>, out |-> "raise",
          error |-> "ValueError", frame |-> NoFrame]
    ELSE SimIterLoop([state |-> state, trace |-> <<>>],
                     [end_time |-> end_time,
                      sampling_interval |-> sampling_interval,
                      sampling_years |-> sorted(sampling_years),
                      sampling_years_idx |-> 0,
                      is_on_sampling_year |-> FALSE],
                     d)

\* A generator that steps twice when it is resumed
SimIterResumeTwice(state, f, d) ==
    SimIterLoop([state |-> SimStep(SimStep(state, d), d),
                 trace |-> <<StepEvent(state), StepEvent(SimStep(state, d))>>],
                [f EXCEPT !.sampling_years_idx =
                              IF f.is_on_sampling_year THEN @ + 1 ELSE @],
                d)

\* GenericSimulation.iter_run resumed after a yield: the cursor moves on if
\* the yield was for a sampling year, the step of the pass is executed, and
\* the loop goes on
SimIterResume(state, f, d) ==
    SimIterLoop([state |-> SimStep(state, d), trace |-> <<StepEvent(state)>>],
                [f EXCEPT !.sampling_years_idx =
                              IF f.is_on_sampling_year THEN @ + 1 ELSE @],
                d)

----------------------------------------------------------------------------
(* iter_run of the Regime Scheduler (endgame_simulation.py) *)

RECURSIVE EndgameIterLoop(_, _, _)
RECURSIVE EndgameYieldFrom(_, _, _, _)

\* `yield from self.simulation.iter_run(...)`: r is the scheduler before
\* the delegated generator ran on, seg what that generator did then.  A
\* yield suspends the scheduler's generator too, an exception passes
\* through, and a return goes back to the top of the while loop.
EndgameYieldFrom(r, seg, g, d) ==
    LET r1 == [self |-> [r.self EXCEPT !.simulation = seg.state],
               log |-> r.log \o seg.trace,
               iters |-> r.iters]
    IN  IF seg.out = "return"
        THEN EndgameIterLoop(r1, g, d)
        ELSE [self |-> r1.self, log |-> r1.log, iters |-> r1.iters,
              out |-> seg.out, error |-> seg.error, frame |-> seg.frame]

\* The while loop of GenericEndgame.iter_run, from the top of a pass
EndgameIterLoop(r, g, d) ==
    IF r.self.simulation.current_time < g.end_time
    THEN LET s == r.self
             has == s.next_params_index < Len(s.param_set)
             time == s.param_set[s.next_params_index + 1][1]
             params == s.param_set[s.next_params_index + 1][2]
             switch == has /\ time < g.end_time
             index1 == IF has THEN s.next_params_index + 1
                       ELSE s.next_params_index
             checkpoint_time == IF switch THEN time ELSE g.end_time
             state1 == IF switch THEN reset_current_params(s.simulation, params)
                       ELSE s.simulation
             log1 == IF switch
                     THEN Append(r.log, InstallEvent(s.simulation,
                                                     s.next_params_index, params))
                     ELSE r.log
         IN  EndgameYieldFrom(
                 [self |-> [simulation |-> state1,
                            param_set |-> s.param_set,
                            next_params_index |-> index1],
                  log |-> log1,
                  iters |-> r.iters + 1],
                 SimIterStart(state1, checkpoint_time, g.sampling_interval,
                              g.sampling_years, d),
                 g, d)
    ELSE [self |-> r.self, log |-> r.log, iters |-> r.iters,
          out |-> "return", error |-> "none", frame |-> NoFrame]

\* GenericEndgame.iter_run from its first line to its first yield
EndgameIterStart(s, g, d) ==
    EndgameIterLoop([self |-> s, log |-> <<>>, iters |-> 0], g, d)

\* GenericEndgame.iter_run resumed after a yield of the delegated generator
EndgameIterResume(s, g, d) ==
    EndgameYieldFrom([self |-> s, log |-> <<>>, iters |-> 0],
                     SimIterResume(s.simulation, g.frame, d), g, d)

----------------------------------------------------------------------------
(* Generators in use *)

\* The record of one iter_run call: it is made when the generator is
\* created and brought up to date each time the generator is resumed
IterCall(e, a, pre) ==
    [op |-> "iter_run", end_time |-> e, pre |-> pre, post |-> pre,
     log |-> <<>>, iters |-> 0, error |-> "none",
     sampling_interval |-> a.sampling_interval,
     sampling_years |-> a.sampling_years, status |-> "start"]

Pulled(c, r) ==
    [c EXCEPT !.post = r.self, !.log = @ \o r.log, !.iters = @ + r.iters,
              !.error = r.error,
              !.status = IF r.out = "yield" THEN "yielded" ELSE "done"]

\* endgame.iter_run(end_time=e, **a) as the first call on the scheduler:
\* the call creates the generator and runs none of its body
IterRun ==
    /\ phase = "ready"
    /\ hist = <<>>
    /\ \E e \in EndTimes : \E a \in SamplingArgs(AscendingYearLists(MaxYears)) :
          /\ gen' = [pc |-> "start", end_time |-> e,
                     sampling_interval |-> a.sampling_interval,
                     sampling_years |-> a.sampling_years, frame |-> NoFrame]
          /\ hist' = Append(hist, IterCall(e, a, Self))
    /\ UNCHANGED <<delta_time, start_time, endgame, phase, simulation,
                   param_set, next_params_index, h5, twin>>

\* next(generator): the body runs to its next yield, to its end, or to an
\* exception
Pull ==
    /\ phase = "ready"
    /\ gen.pc \in {"start", "yielded"}
    /\ LET r == IF gen.pc = "start"
                THEN EndgameIterStart(Self, gen, delta_time)
                ELSE EndgameIterResume(Self, gen, delta_time)
       IN  /\ simulation' = r.self.simulation
           /\ param_set' = r.self.param_set
           /\ next_params_index' = r.self.next_params_index
           /\ gen' = [gen EXCEPT !.pc = IF r.out = "yield" THEN "yielded"
                                        ELSE "done",
                                 !.frame = r.frame]
           /\ hist' = [hist EXCEPT ![Len(hist)] = Pulled(@, r)]
    /\ UNCHANGED <<delta_time, start_time, endgame, phase, h5, twin>>

\* The caller stops iterating at a yield and drops the generator
Abandon ==
    /\ phase = "ready"
    /\ gen.pc = "yielded"
    /\ gen' = NoGen
    /\ hist' = [hist EXCEPT ![Len(hist)].status = "abandoned"]
    /\ UNCHANGED <<delta_time, start_time, endgame, phase, simulation,
                   param_set, next_params_index, h5, twin>>

NextIter ==
    \/ Construct
    \/ IterRun
    \/ Pull

SpecIter == Init /\ [][NextIter]_vars

NextAbandon ==
    \/ Construct
    \/ IterRun
    \/ Pull
    \/ Abandon
    \/ \E e \in EndTimes : Run(e)

SpecAbandon == Init /\ [][NextAbandon]_vars

\* simulation.iter_run(end_time=e, **a) as the first call on a Stepper
SimIterRun ==
    /\ phase = "stepper"
    /\ hist = <<>>
    /\ \E e \in EndTimes : \E a \in SamplingArgs(YearLists(MaxStepperYears)) :
          /\ gen' = [pc |-> "start", end_time |-> e,
                     sampling_interval |-> a.sampling_interval,
                     sampling_years |-> a.sampling_years, frame |-> NoFrame]
          /\ hist' = Append(hist, IterCall(e, a, Self))
    /\ UNCHANGED <<delta_time, start_time, endgame, phase, simulation,
                   param_set, next_params_index, h5, twin>>

\* next(generator) on a Stepper's generator
SimPull ==
    /\ phase = "stepper"
    /\ gen.pc \in {"start", "yielded"}
    /\ LET r == IF gen.pc = "start"
                THEN SimIterStart(simulation, gen.end_time,
                                  gen.sampling_interval, gen.sampling_years,
                                  delta_time)
                ELSE SimIterResume(simulation, gen.frame, delta_time)
       IN  /\ simulation' = r.state
           /\ gen' = [gen EXCEPT !.pc = IF r.out = "yield" THEN "yielded"
                                        ELSE "done",
                                 !.frame = r.frame]
           /\ hist' = [hist EXCEPT ![Len(hist)] =
                          Pulled(@, [self |-> [Self EXCEPT !.simulation = r.state],
                                     log |-> r.trace, iters |-> 0,
                                     error |-> r.error, out |-> r.out])]
    /\ UNCHANGED <<delta_time, start_time, endgame, phase, param_set,
                   next_params_index, h5, twin>>

NextStepperIter ==
    \/ SimConstruct
    \/ SimIterRun
    \/ SimPull

SpecStepperIter == InitStepper /\ [][NextStepperIter]_vars

----------------------------------------------------------------------------
(* Vocabulary of the properties *)

RunCalls == { c \in 1..Len(hist) : hist[c].op = "run" }
Regimes == 0..(Len(param_set) - 1)
ActivationTime(k) == param_set[k + 1][1]
RegimeParams(k) == param_set[k + 1][2]

\* The list position chosen when the object was constructed
FirstIndex == FirstAfter(endgame, start_time).index

\* The events of call c, and the regimes installed before event j of call c
Events(c) == 1..Len(hist[c].log)
InstalledBefore(c, j) ==
    { k \in Regimes :
        \E b \in 1..c : \E i \in 1..Len(hist[b].log) :
            /\ hist[b].log[i].ev = "install"
            /\ hist[b].log[i].k = k
            /\ (b < c \/ i < j) }

StepsOf(log) == SelectSeq(log, LAMBDA e : e.ev = "step")
InstallsOf(log) == SelectSeq(log, LAMBDA e : e.ev = "install")

\* What a caller can observe of a scheduler
Observed(s) ==
    [current_time |-> s.simulation.current_time,
     params |-> s.simulation.params,
     next_params_index |-> s.next_params_index]

----------------------------------------------------------------------------
(* Regime switching *)

\* C1: during run the parameter set of regime k is never installed while
\* current_time < the activation time of regime k, and every step executed
\* at a time before the activation time of regime k runs with the
\* parameters of an earlier regime.
C1_NoEarlyInstall ==
    \A c \in RunCalls : \A j \in Events(c) :
        LET e == hist[c].log[j]
        IN  /\ e.ev = "install" => e.t >= ActivationTime(e.k)
            /\ e.ev = "step" =>
                  \A k \in Regimes :
                      (k >= FirstIndex /\ e.t < ActivationTime(k))
                          => \E i \in 0..(k - 1) : e.p = RegimeParams(i)

\* C2: over any sequence of run calls, no step is executed at a time at or
\* after the activation time of a regime that was still ahead at
\* construction unless that regime's parameters have been installed before.
C2_NoRegimeSkipped ==
    \A c \in RunCalls : \A j \in Events(c) :
        LET e == hist[c].log[j]
        IN  e.ev = "step" =>
              \A k \in Regimes :
                  (k >= FirstIndex /\ ActivationTime(k) <= e.t)
                      => k \in InstalledBefore(c, j)

\* The schedule invariant of a scheduler s
ScheduleInvariant(s) ==
    /\ 1 <= s.next_params_index
    /\ s.next_params_index <= Len(s.param_set)
    /\ s.param_set[s.next_params_index][1] <= s.simulation.current_time
    /\ s.next_params_index < Len(s.param_set)
          => s.simulation.current_time < s.param_set[s.next_params_index + 1][1]

\* C3: in every state a caller can observe or checkpoint (after
\* construction, after restore, after each run call returns) the index
\* satisfies 1 <= next_params_index <= len(timeline), the regime before it
\* is active (its time <= current_time) and the regime at it is still ahead.
C3_ScheduleInvariant ==
    /\ phase = "ready" => ScheduleInvariant(Self)
    /\ twin.present => ScheduleInvariant(twin.self)

----------------------------------------------------------------------------
(* Checkpoint and resume *)

\* The calls made on the kept object since the restore, aligned with the
\* calls made on the restored object
KeptCall(j) == hist[Len(hist) - Len(twin.calls) + j]

----------------------------------------------------------------------------
(* Split runs *)

\* Two run calls in a row, run(mid_time) then run(end_time), with
\* current_time <= mid_time <= end_time
SplitRun(c) ==
    /\ c \in RunCalls
    /\ c + 1 \in RunCalls
    /\ hist[c].pre.simulation.current_time <= hist[c].end_time
    /\ hist[c].end_time <= hist[c + 1].end_time

\* C5: split-run determinism for the scheduler: run(mid_time) followed by
\* run(end_time) ends in the same current_time, active parameter set and
\* next_params_index as a single run(end_time), with the same parameter set
\* in force at every executed step.
C5_SchedulerSplitRun ==
    \A c \in 1..Len(hist) :
        SplitRun(c) =>
            LET single == EndgameRun(hist[c].pre, hist[c + 1].end_time, delta_time)
            IN  /\ Observed(hist[c + 1].post) = Observed(single.self)
                /\ StepsOf(hist[c].log) \o StepsOf(hist[c + 1].log)
                      = StepsOf(single.log)

\* C6 as stated: run(mid_time) followed by run(end_time) on a Stepper both
\* complete, and leave the same current_time and the same number of advance
\* invocations as a single run(end_time).
C6_StepperSplitRunBothComplete ==
    \A c \in 1..Len(hist) :
        SplitRun(c) =>
            LET single == SimRun(hist[c].pre.simulation, hist[c + 1].end_time,
                                 delta_time)
            IN  /\ hist[c].error = "none"
                /\ hist[c + 1].error = "none"
                /\ single.error = "none"
                /\ hist[c + 1].post.simulation = single.state

\* C6 amended: run(mid_time) completes; the following run(end_time)
\* completes unless the first call already left current_time > end_time, in
\* which case it raises and changes nothing; either way the Stepper ends
\* with the current_time and the number of advance invocations of a single
\* run(end_time), having executed the same steps.
C6_StepperSplitRun ==
    \A c \in 1..Len(hist) :
        SplitRun(c) =>
            LET single == SimRun(hist[c].pre.simulation, hist[c + 1].end_time,
                                 delta_time)
                between == hist[c].post.simulation.current_time
            IN  /\ hist[c].error = "none"
                /\ single.error = "none"
                /\ hist[c + 1].error =
                      (IF between > hist[c + 1].end_time THEN "ValueError"
                       ELSE "none")
                /\ hist[c + 1].post.simulation = single.state
                /\ hist[c].log \o hist[c + 1].log = single.trace

\* C6 witness: a split run whose second call completes and takes steps,
\* followed by a split run whose second call is rejected.
C6_Witness ==
    /\ phase = "stepper"
    /\ Len(hist) = 3
    /\ SplitRun(1) /\ hist[2].error = "none" /\ Len(hist[2].log) >= 2
    /\ SplitRun(2) /\ hist[3].error = "ValueError"

----------------------------------------------------------------------------
(* Rejection, termination and overshoot *)

\* C7: run(end_time) with end_time < current_time fails, on the Stepper and
\* on the Scheduler, and leaves current_time, the active parameter set and
\* next_params_index unchanged.
C7_BackwardRunRejected ==
    \A c \in RunCalls :
        hist[c].end_time < hist[c].pre.simulation.current_time
            => /\ hist[c].error # "none"
               /\ hist[c].post = hist[c].pre

\* C8: every Scheduler.run(end_time) with end_time >= current_time returns
\* normally, no Stepper segment being rejected, after at most (remaining
\* regimes + 1) passes of the loop, with current_time >= end_time.
C8_RunTerminatesNormally ==
    \A c \in RunCalls :
        hist[c].end_time >= hist[c].pre.simulation.current_time
            => /\ hist[c].error = "none"
               /\ hist[c].iters
                     <= (Len(hist[c].pre.param_set)
                           - hist[c].pre.next_params_index) + 1
               /\ hist[c].post.simulation.current_time >= hist[c].end_time

\* The number of increments and of advance invocations of call c
Increments(c) ==
    hist[c].post.simulation.advances - hist[c].pre.simulation.advances

Completed(c) ==
    /\ c \in RunCalls
    /\ hist[c].end_time >= hist[c].pre.simulation.current_time
    /\ hist[c].error = "none"

\* C9 as stated: after Stepper.run(end_time) returns normally, end_time <
\* current_time < end_time + delta_time, and current_time is the starting
\* time plus one delta_time per advance invocation.
C9_OvershootLessThanDelta ==
    \A c \in 1..Len(hist) :
        Completed(c) =>
            /\ hist[c].end_time < hist[c].post.simulation.current_time
            /\ hist[c].post.simulation.current_time
                  < hist[c].end_time + delta_time
            /\ hist[c].post.simulation.current_time
                  = hist[c].pre.simulation.current_time
                      + Increments(c) * delta_time

\* C9 amended: after Stepper.run(end_time) returns normally, end_time <
\* current_time <= end_time + delta_time (the overshoot is a whole
\* delta_time when end_time lies on the step grid), current_time is the
\* starting time plus one delta_time per advance invocation, and one step
\* was executed per increment.
C9_OvershootAtMostDelta ==
    \A c \in 1..Len(hist) :
        Completed(c) =>
            /\ hist[c].end_time < hist[c].post.simulation.current_time
            /\ hist[c].post.simulation.current_time
                  <= hist[c].end_time + delta_time
            /\ hist[c].post.simulation.current_time
                  = hist[c].pre.simulation.current_time
                      + Increments(c) * delta_time
            /\ Increments(c) = Len(hist[c].log)
            /\ Increments(c) >= 1

\* C9 witness: a completed Stepper.run of several steps that overshoots by
\* a whole delta_time, after one that overshoots by less.
C9_Witness ==
    /\ phase = "stepper"
    /\ Len(hist) >= 2
    /\ Completed(1)
    /\ hist[1].post.simulation.current_time < hist[1].end_time + delta_time
    /\ Completed(2)
    /\ Increments(2) >= 2
    /\ hist[2].post.simulation.current_time = hist[2].end_time + delta_time

----------------------------------------------------------------------------
(* Construction *)

\* C10: when construction from a fresh timeline succeeds, next_params_index
\* is the smallest list position whose activation time is greater than
\* start_time, current_time is start_time, and the active parameter set is
\* that of the position before it.
C10_ConstructionSelectsRegime ==
    (phase = "ready" /\ hist = <<>>) =>
        /\ next_params_index \in 1..(Len(endgame) - 1)
        /\ endgame[next_params_index + 1][1] > start_time
        /\ \A i \in 0..(next_params_index - 1) : endgame[i + 1][1] <= start_time
        /\ param_set = endgame
        /\ simulation.current_time = start_time
        /\ simulation.params = endgame[next_params_index][2]
        /\ simulation.advances = 0

\* C10 witness: the timeline [(0, A), (2, B), (3, C)] constructed at
\* start_time 2 selects position 2 with B active.
C10_Witness ==
    /\ phase = "ready" /\ hist = <<>>
    /\ Len(endgame) = 3
    /\ endgame[1][1] = 0 /\ endgame[2][1] = 2 /\ endgame[3][1] = 3
    /\ start_time = 2
    /\ next_params_index = 2
    /\ simulation.params = endgame[2][2]

\* C11: construction from a fresh, non-empty, strictly increasing timeline
\* fails if and only if timeline[0].activation_time > start_time; whenever
\* timeline[0].activation_time <= start_time it succeeds, also when every
\* regime has activation_time <= start_time.
C11_ConstructionFailsIffNoneBefore ==
    (phase # "new" /\ phase # "stepper" /\ Len(endgame) > 0) =>
        (phase # "ready" <=> endgame[1][1] > start_time)

----------------------------------------------------------------------------
(* Replacing the timeline *)

ResetCalls == { c \in 1..Len(hist) : hist[c].op = "reset" }

\* C12: a successful reset_timeline replaces the timeline by the new one,
\* sets next_params_index to the smallest list position whose activation
\* time is greater than the current time, installs the parameter set of the
\* position before it, and leaves current_time (and the rest of the State)
\* unchanged.
C12_ResetSelectsRegime ==
    \A c \in ResetCalls :
        hist[c].error = "none" =>
            LET eg == hist[c].arg
                now == hist[c].pre.simulation.current_time
                index == hist[c].post.next_params_index
            IN  /\ hist[c].post.param_set = eg
                /\ index \in 1..(Len(eg) - 1)
                /\ eg[index + 1][1] > now
                /\ \A i \in 0..(index - 1) : eg[i + 1][1] <= now
                /\ hist[c].post.simulation.params = eg[index][2]
                /\ hist[c].post.simulation.current_time = now
                /\ hist[c].post.simulation.advances
                      = hist[c].pre.simulation.advances

\* C12 witness: after a run has moved current_time away from start_time, a
\* reset succeeds with a timeline whose first regime lies after start_time.
C12_Witness ==
    /\ Len(hist) = 2
    /\ hist[1].op = "run" /\ Len(hist[1].log) > 0
    /\ hist[2].op = "reset" /\ hist[2].error = "none"
    /\ hist[2].arg[1][1] > start_time
    /\ simulation.params # hist[2].pre.simulation.params
    /\ param_set = hist[2].arg

\* C20: a reset_timeline call that fails its schedule-consistency check
\* leaves the scheduler unchanged: the previous timeline, the previous
\* next_params_index and the active parameter set are as before the call.
C20_FailedResetChangesNothing ==
    \A c \in ResetCalls :
        hist[c].error # "none" => hist[c].post = hist[c].pre

----------------------------------------------------------------------------
(* Sampling *)

IterCalls == { c \in 1..Len(hist) : hist[c].op = "iter_run" }

\* The elements of l in ascending order
Ascending(l) ==
    CHOOSE s \in [1..Len(l) -> { l[i] : i \in 1..Len(l) }] :
        /\ \A i \in 1..(Len(l) - 1) : s[i] <= s[i + 1]
        /\ \A v \in { l[i] : i \in 1..Len(l) } :
              Cardinality({ i \in 1..Len(l) : s[i] = v })
                  = Cardinality({ i \in 1..Len(l) : l[i] = v })
YieldsOf(log) == SelectSeq(log, LAMBDA e : e.ev = "yield")

\* Call c is an iter_run call in explicit-years mode whose generator was
\* iterated to its end, all requested years lying between the current time
\* at the call and end_time
DrainedYears(c) ==
    /\ hist[c].status = "done"
    /\ hist[c].error = "none"
    /\ hist[c].sampling_interval = 0
    /\ hist[c].sampling_years # <<>>
    /\ \A i \in 1..Len(hist[c].sampling_years) :
          /\ hist[c].pre.simulation.current_time <= hist[c].sampling_years[i]
          /\ hist[c].sampling_years[i] <= hist[c].end_time

\* Consecutive requested years are at least delta_time apart
YearsApart(c) ==
    LET ys == Ascending(hist[c].sampling_years)
    IN  \A i \in 1..(Len(ys) - 1) : ys[i + 1] - ys[i] >= delta_time

\* One sample per requested year, in ascending order of the years, the i-th
\* sample within delta_time of the i-th smallest year
SampledYears(c) ==
    LET ys == Ascending(hist[c].sampling_years)
        samples == YieldsOf(hist[c].log)
    IN  /\ Len(samples) = Len(ys)
        /\ \A i \in 1..Len(samples) :
              /\ i <= Len(ys)
              /\ samples[i].k = ys[i]
              /\ Abs(samples[i].t - ys[i]) < delta_time
        /\ \A i \in 1..(Len(samples) - 1) : samples[i].t < samples[i + 1].t

C14_EveryYearSampledAcrossRegimes ==
    \A c \in IterCalls :
        (/\ DrainedYears(c)
         /\ YearsApart(c)
         /\ InstallsOf(hist[c].log) # <<>>) => SampledYears(c)

\* Call c is an iter_run call in interval mode, with delta_time no greater
\* than the interval, whose generator was iterated to its end
DrainedInterval(c) ==
    /\ hist[c].status = "done"
    /\ hist[c].error = "none"
    /\ hist[c].sampling_interval # 0
    /\ hist[c].sampling_years = <<>>
    /\ delta_time <= hist[c].sampling_interval

\* The multiples of the sampling interval between the current time at call
\* c and its end_time
Multiples(c) ==
    { m \in hist[c].pre.simulation.current_time..hist[c].end_time :
        m % hist[c].sampling_interval = 0 }

\* C15: iter_run in interval mode, fully drained with delta_time no greater
\* than the interval, yields exactly one sample for every multiple m of the
\* interval in [current_time, end_time], at a step time t with
\* m <= t < m + delta_time.
C15_EveryIntervalSampledOnce ==
    \A c \in IterCalls :
        DrainedInterval(c) =>
            LET samples == YieldsOf(hist[c].log)
            IN  \A m \in Multiples(c) :
                    Cardinality({ i \in 1..Len(samples) :
                                    /\ m <= samples[i].t
                                    /\ samples[i].t < m + delta_time }) = 1

\* C16: an iter_run call given both sampling_interval and sampling_years,
\* once its generator is first resumed, raises ValueError whatever end_time
\* is, and has no effect: no step, no installation, the scheduler as before.
C16_BothArgumentsRejected ==
    \A c \in IterCalls :
        (/\ hist[c].status # "start"
         /\ hist[c].sampling_interval # 0
         /\ hist[c].sampling_years # <<>>)
            => /\ hist[c].error = "ValueError"
               /\ hist[c].log = <<>>
               /\ hist[c].post = hist[c].pre

\* C17: after iter_run(end_time, ...) is abandoned at a yield, run(end_time)
\* on the same scheduler ends with the current_time and next_params_index,
\* and executes the steps with the parameter sets, of an uninterrupted
\* run(end_time) from the state before the iter_run call.
C17_AbandonThenRun ==
    \A c \in IterCalls :
        (/\ hist[c].status = "abandoned"
         /\ c < Len(hist)
         /\ hist[c + 1].op = "run"
         /\ hist[c + 1].end_time = hist[c].end_time)
            => LET whole == EndgameRun(hist[c].pre, hist[c].end_time, delta_time)
               IN  /\ hist[c + 1].post.simulation.current_time
                        = whole.self.simulation.current_time
                   /\ hist[c + 1].post.next_params_index
                        = whole.self.next_params_index
                   /\ StepsOf(hist[c].log \o hist[c + 1].log)
                        = StepsOf(whole.log)

\* C18: fully draining iter_run(end_time, ...) with valid sampling arguments
\* leaves the scheduler as run(end_time) from the same state does: the same
\* final state and next_params_index, the same steps and installations in
\* the same order, the same outcome; and each yield comes immediately
\* before the step of its loop pass, at that step's time.
C18_SamplingKeepsTrajectory ==
    \A c \in IterCalls :
        (/\ hist[c].status = "done"
         /\ (hist[c].sampling_interval = 0 \/ hist[c].sampling_years = <<>>))
            => LET plain == EndgameRun(hist[c].pre, hist[c].end_time, delta_time)
                   log == hist[c].log
               IN  /\ hist[c].post = plain.self
                   /\ hist[c].error = plain.error
                   /\ hist[c].iters = plain.iters
                   /\ SelectSeq(log, LAMBDA e : e.ev # "yield") = plain.log
                   /\ \A j \in 1..Len(log) :
                         log[j].ev = "yield" =>
                             /\ j < Len(log)
                             /\ log[j + 1].ev = "step"
                             /\ log[j + 1].t = log[j].t
                             /\ log[j + 1].p = log[j].p

\* C18 witness: a drained generator that sampled more than once, in a run
\* that installed a regime and executed several steps.
C18_Witness ==
    /\ phase = "ready"
    /\ Len(hist) = 1
    /\ hist[1].op = "iter_run" /\ hist[1].status = "done"
    /\ hist[1].error = "none"
    /\ hist[1].sampling_years # <<>>
    /\ Len(YieldsOf(hist[1].log)) >= 2
    /\ InstallsOf(hist[1].log) # <<>>
    /\ Len(StepsOf(hist[1].log)) >= 3

----------------------------------------------------------------------------
(* The clock *)

\* C19: over any sequence of calls current_time never decreases and grows
\* by delta_time per advance invocation; save and every failed call leave
\* current_time unchanged.
C19_ClockMovesOnlyBySteps ==
    \A c \in 1..Len(hist) :
        LET before == hist[c].pre.simulation
            after == hist[c].post.simulation
        IN  /\ after.current_time >= before.current_time
            /\ after.current_time - before.current_time
                 = delta_time * (after.advances - before.advances)
            /\ (hist[c].op = "save" \/ hist[c].error # "none")
                  => after.current_time = before.current_time

====
